---- MODULE Spec2Model ----
(***************************************************************************)
(* Model of src/app.py (Nkulisa Burials NPC web application).              *)
(*                                                                         *)
(* State: the Member table (Member Store), the Firebase "members"          *)
(* collection (Mirror Store), the process-wide firebase_admin._apps        *)
(* registry, and the position of every in-flight /register and /contact    *)
(* POST.  The host may serve several requests at once, so the /register    *)
(* handler is cut at the points where it touches shared state: the         *)
(* existence query, the commit, and the mirror push.                       *)
(*                                                                         *)
(* Text is a sequence of one-character strings, so that str.strip() and    *)
(* str.lower() are computed and not assumed.                               *)
(*                                                                         *)
(* The Member Store is modelled as available: the only error a commit      *)
(* raises is the violation of the unique constraint on Member.email.       *)
(* Registration forms carry all four fields (a form lacking one is         *)
(* answered 400 before any state is read).                                 *)
(***************************************************************************)
EXTENDS Integers, Sequences, FiniteSets, TLC

VARIABLES
    firebase_credentials,  \* os.getenv("FIREBASE_CREDENTIALS"): "absent", "malformed" or "valid"
    firebase_db_url,       \* os.getenv("FIREBASE_DB_URL"): "absent" or "set"
    booted,                \* the module-level code has run
    firebase_apps,         \* firebase_admin._apps is non-empty
    initCalls,             \* number of successful firebase_admin.initialize_app calls
    members,               \* rows of the Member table, in insertion order
    mirror,                \* records pushed under "members" in the Mirror Store
    reg,                   \* per /register POST: position, form, locals, outcome
    con                    \* per /contact POST: position, form, send attempts, outcome

vars == <<firebase_credentials, firebase_db_url, booted, firebase_apps, initCalls,
          members, mirror, reg, con>>

----------------------------------------------------------------------------
(* Bounds *)

MaxReqs == 2
MaxContacts == 1

Reqs == 1..MaxReqs
Contacts == 1..MaxContacts

----------------------------------------------------------------------------
(* Text *)

Whitespace == {" "}

LowerChar(c) ==
    CASE c = "A" -> "a"
      [] c = "B" -> "b"
      [] c = "J" -> "j"
      [] c = "D" -> "d"
      [] c = "G" -> "g"
      [] OTHER -> c

RECURSIVE LStrip(_)
LStrip(s) ==
    IF s = <<>> THEN s
    ELSE IF Head(s) \in Whitespace THEN LStrip(Tail(s)) ELSE s

RECURSIVE RStrip(_)
RStrip(s) ==
    IF s = <<>> THEN s
    ELSE IF s[Len(s)] \in Whitespace THEN RStrip(SubSeq(s, 1, Len(s) - 1)) ELSE s

\* str.strip()
Strip(s) == RStrip(LStrip(s))

\* str.lower()
Lower(s) == [i \in 1..Len(s) |-> LowerChar(s[i])]

----------------------------------------------------------------------------
(* Inputs *)

\* Submissions to /register: two spellings of one address under different
\* names, and a second address.
RegisterForms ==
    { [name |-> <<" ", "J", " ", "D", " ">>, phone |-> <<" ", "0", "7", " ">>,
       email |-> <<" ", "A", "@", "B", " ">>, package |-> <<"G", " ">>],
      [name |-> <<"j", "d">>, phone |-> <<"0", "8">>,
       email |-> <<"a", "@", "b">>, package |-> <<"s">>],
      [name |-> <<"j", "d">>, phone |-> <<"0", "8">>,
       email |-> <<"c", "@", "b">>, package |-> <<"s">>] }

\* Submissions to /contact: a complete form, and one without the message field.
ContactForms ==
    { [name |-> <<"J">>, email |-> <<"a", "@", "b">>, message |-> <<"h", "i">>],
      [name |-> <<"J">>, email |-> <<"a", "@", "b">>] }

\* results of mail.send: delivered, or the text of the exception raised
MailErrors == {"SMTPAuthenticationError", "SMTPServerDisconnected"}
MailResults == {"ok"} \cup MailErrors

----------------------------------------------------------------------------
(* Initial state *)

NoText == <<>>

IdleReg ==
    [pc |-> "idle", form |-> [name |-> NoText, phone |-> NoText, email |-> NoText,
                               package |-> NoText],
     full_name |-> NoText, phone |-> NoText, email |-> NoText, package |-> NoText,
     outcome |-> "none", raised |-> "none", memberId |-> 0,
     pushes |-> 0, mirrorResult |-> "none"]

IdleCon ==
    [pc |-> "idle", form |-> [name |-> NoText], sends |-> 0,
     outcome |-> "none", text |-> "none"]

Init ==
    /\ firebase_credentials \in {"absent", "malformed", "valid"}
    /\ firebase_db_url \in {"absent", "set"}
    /\ booted = FALSE
    /\ firebase_apps = FALSE
    /\ initCalls = 0
    /\ members = <<>>
    /\ mirror = <<>>
    /\ reg = [r \in Reqs |-> IdleReg]
    /\ con = [c \in Contacts |-> IdleCon]

----------------------------------------------------------------------------
(* Process start: the Firebase block of the module *)

\* as FirebaseInit, but the application is registered only when a database
\* URL is configured as well
FirebaseInit_NeedsUrl ==
    /\ ~booted
    /\ booted' = TRUE
    /\ IF firebase_credentials # "absent" /\ firebase_db_url # "absent" /\ ~firebase_apps
       THEN IF firebase_credentials = "valid"
            THEN firebase_apps' = TRUE /\ initCalls' = initCalls + 1
            ELSE UNCHANGED <<firebase_apps, initCalls>>
       ELSE UNCHANGED <<firebase_apps, initCalls>>
    /\ UNCHANGED <<firebase_credentials, firebase_db_url, members, mirror, reg, con>>

\* if firebase_credentials and not firebase_admin._apps: try: Certificate(json.loads(..));
\* initialize_app(cred, {"databaseURL": firebase_db_url}) except: print.
\* Certificate/json.loads raise on a malformed document; initialize_app does not
\* look at databaseURL, so it succeeds with the URL unset.
FirebaseInit ==
    /\ ~booted
    /\ booted' = TRUE
    /\ IF firebase_credentials # "absent" /\ ~firebase_apps
       THEN IF firebase_credentials = "valid"
            THEN firebase_apps' = TRUE /\ initCalls' = initCalls + 1
            ELSE UNCHANGED <<firebase_apps, initCalls>>
       ELSE UNCHANGED <<firebase_apps, initCalls>>
    /\ UNCHANGED <<firebase_credentials, firebase_db_url, members, mirror, reg, con>>

----------------------------------------------------------------------------
(* POST /register *)

\* as Normalize, without .lower() on the email
Normalize_NoLower(f) ==
    [full_name |-> Strip(f.name),
     phone     |-> Strip(f.phone),
     email     |-> Strip(f.email),
     package   |-> f.package]

\* as Normalize, with .lower() applied to the name as well
Normalize_LowerName(f) ==
    [full_name |-> Lower(Strip(f.name)),
     phone     |-> Strip(f.phone),
     email     |-> Lower(Strip(f.email)),
     package   |-> f.package]

\* full_name, phone, email, package as the handler reads them from the form
Normalize(f) ==
    [full_name |-> Strip(f.name),
     phone     |-> Strip(f.phone),
     email     |-> Lower(Strip(f.email)),
     package   |-> f.package]

\* as QueryByEmail, with the existence query never finding a row
QueryByEmail_Never(email) == FALSE

\* Member.query.filter_by(email=email).first()
QueryByEmail(email) ==
    \E i \in 1..Len(members) : members[i].email = email

\* as UniqueViolation, for a column declared without unique=True
UniqueViolation_Never(email) == FALSE

\* the unique constraint on Member.email, enforced by the store at commit
UniqueViolation(email) ==
    \E i \in 1..Len(members) : members[i].email = email

\* the Member the handler constructs; id is assigned by the store
NewMember(q) ==
    [id |-> Len(members) + 1, full_name |-> q.full_name, email |-> q.email,
     phone |-> q.phone, package |-> q.package]

\* as MirrorRecord, pushing the email as submitted
MirrorRecord_RawEmail(q) ==
    [full_name |-> q.full_name, email |-> q.form.email, phone |-> q.phone,
     package |-> q.package]

\* the document pushed under "members"
MirrorRecord(q) ==
    [full_name |-> q.full_name, email |-> q.email, phone |-> q.phone,
     package |-> q.package]

\* The form is read and normalized and the existence query runs; a hit flashes
\* "Email already registered." and redirects back to the form.
RegisterCheck(r) ==
    /\ booted
    /\ reg[r].pc = "idle"
    /\ \E f \in RegisterForms :
         LET n == Normalize(f)
             q == [reg[r] EXCEPT !.form = f, !.full_name = n.full_name,
                                 !.phone = n.phone, !.email = n.email,
                                 !.package = n.package]
         IN  IF QueryByEmail(n.email)
             THEN reg' = [reg EXCEPT ![r] =
                            [q EXCEPT !.pc = "done", !.outcome = "DuplicateEmail"]]
             ELSE reg' = [reg EXCEPT ![r] = [q EXCEPT !.pc = "checked"]]
    /\ UNCHANGED <<firebase_credentials, firebase_db_url, booted, firebase_apps,
                   initCalls, members, mirror, con>>

\* db.session.add(member); db.session.commit().  A violation of the unique
\* constraint raises IntegrityError, which no handler catches: the request
\* ends as an unhandled fault and nothing after the commit runs.
RegisterCommit(r) ==
    /\ reg[r].pc = "checked"
    /\ IF UniqueViolation(reg[r].email)
       THEN /\ reg' = [reg EXCEPT ![r].pc = "done",
                                  ![r].raised = "IntegrityError",
                                  ![r].outcome = "RegistrationFailed"]
            /\ UNCHANGED members
       ELSE /\ members' = Append(members, NewMember(reg[r]))
            /\ reg' = [reg EXCEPT ![r].pc = "committed",
                                  ![r].memberId = Len(members) + 1]
    /\ UNCHANGED <<firebase_credentials, firebase_db_url, booted, firebase_apps,
                   initCalls, mirror, con>>

\* as RegisterMirror, without the try/except: a failing push ends the request
\* as an unhandled fault
RegisterMirror_Propagate(r) ==
    /\ reg[r].pc = "committed"
    /\ IF firebase_apps
       THEN IF firebase_db_url = "absent"
            THEN /\ reg' = [reg EXCEPT ![r].pc = "done",
                                       ![r].mirrorResult = "error",
                                       ![r].outcome = "RegistrationFailed"]
                 /\ UNCHANGED mirror
            ELSE \E ok \in BOOLEAN :
                 /\ mirror' = IF ok THEN Append(mirror, MirrorRecord(reg[r])) ELSE mirror
                 /\ reg' = [reg EXCEPT ![r].pc = "done",
                                       ![r].pushes = @ + 1,
                                       ![r].mirrorResult = IF ok THEN "ok" ELSE "error",
                                       ![r].outcome = IF ok THEN "RegistrationSucceeded"
                                                      ELSE "RegistrationFailed"]
       ELSE /\ reg' = [reg EXCEPT ![r].pc = "done",
                                  ![r].mirrorResult = "skipped",
                                  ![r].outcome = "RegistrationSucceeded"]
            /\ UNCHANGED mirror
    /\ UNCHANGED <<firebase_credentials, firebase_db_url, booted, firebase_apps,
                   initCalls, members, con>>

\* as RegisterMirror, without the test of firebase_admin._apps: with no
\* application registered reference() raises, and the except swallows it
RegisterMirror_NoGuard(r) ==
    /\ reg[r].pc = "committed"
    /\ IF firebase_apps /\ firebase_db_url # "absent"
       THEN \E ok \in BOOLEAN :
            /\ mirror' = IF ok THEN Append(mirror, MirrorRecord(reg[r])) ELSE mirror
            /\ reg' = [reg EXCEPT ![r].pc = "done",
                                  ![r].pushes = @ + 1,
                                  ![r].mirrorResult = IF ok THEN "ok" ELSE "error",
                                  ![r].outcome = "RegistrationSucceeded"]
       ELSE /\ reg' = [reg EXCEPT ![r].pc = "done",
                                  ![r].mirrorResult = "error",
                                  ![r].outcome = "RegistrationSucceeded"]
            /\ UNCHANGED mirror
    /\ UNCHANGED <<firebase_credentials, firebase_db_url, booted, firebase_apps,
                   initCalls, members, con>>

\* try: if firebase_admin._apps: reference("members").push({...})
\* except: print.  Then flash "Registration successful!" and redirect.
\* reference() raises when no databaseURL was given, before push is called;
\* push itself may fail (network, auth).  Either exception is swallowed.
RegisterMirror(r) ==
    /\ reg[r].pc = "committed"
    /\ IF firebase_apps
       THEN IF firebase_db_url = "absent"
            THEN /\ reg' = [reg EXCEPT ![r].pc = "done",
                                       ![r].mirrorResult = "error",
                                       ![r].outcome = "RegistrationSucceeded"]
                 /\ UNCHANGED mirror
            ELSE \E ok \in BOOLEAN :
                 /\ mirror' = IF ok THEN Append(mirror, MirrorRecord(reg[r])) ELSE mirror
                 /\ reg' = [reg EXCEPT ![r].pc = "done",
                                       ![r].pushes = @ + 1,
                                       ![r].mirrorResult = IF ok THEN "ok" ELSE "error",
                                       ![r].outcome = "RegistrationSucceeded"]
       ELSE /\ reg' = [reg EXCEPT ![r].pc = "done",
                                  ![r].mirrorResult = "skipped",
                                  ![r].outcome = "RegistrationSucceeded"]
            /\ UNCHANGED mirror
    /\ UNCHANGED <<firebase_credentials, firebase_db_url, booted, firebase_apps,
                   initCalls, members, con>>

----------------------------------------------------------------------------
(* POST /contact *)

ContactFields == {"name", "email", "message"}

\* as Contact, sending a second time when the first send raises
Contact_Retry(c) ==
    /\ booted
    /\ con[c].pc = "idle"
    /\ \E f \in ContactForms, res \in MailResults :
         con' = [con EXCEPT ![c] =
                   IF ContactFields \subseteq DOMAIN f
                   THEN [pc |-> "done", form |-> f,
                         sends |-> IF res = "ok" THEN 1 ELSE 2,
                         outcome |-> IF res = "ok" THEN "NotificationSucceeded"
                                     ELSE "NotificationFailed",
                         text |-> IF res = "ok" THEN "Message sent successfully."
                                  ELSE res]
                   ELSE [pc |-> "done", form |-> f, sends |-> 0,
                         outcome |-> "NotificationFailed",
                         text |-> "BadRequestKeyError"]]
    /\ UNCHANGED <<firebase_credentials, firebase_db_url, booted, firebase_apps,
                   initCalls, members, mirror, reg>>

\* try: msg = Message(... body=f"...{request.form['name']}..."); mail.send(msg);
\* flash success  except Exception as e: flash(f"Failed to send message: {e}").
\* Reading a field the form lacks raises inside the try, before mail.send.
Contact(c) ==
    /\ booted
    /\ con[c].pc = "idle"
    /\ \E f \in ContactForms, res \in MailResults :
         con' = [con EXCEPT ![c] =
                   IF ContactFields \subseteq DOMAIN f
                   THEN [pc |-> "done", form |-> f, sends |-> 1,
                         outcome |-> IF res = "ok" THEN "NotificationSucceeded"
                                     ELSE "NotificationFailed",
                         text |-> IF res = "ok" THEN "Message sent successfully."
                                  ELSE res]
                   ELSE [pc |-> "done", form |-> f, sends |-> 0,
                         outcome |-> "NotificationFailed",
                         text |-> "BadRequestKeyError"]]
    /\ UNCHANGED <<firebase_credentials, firebase_db_url, booted, firebase_apps,
                   initCalls, members, mirror, reg>>

----------------------------------------------------------------------------

Next ==
    \/ FirebaseInit
    \/ \E r \in Reqs : RegisterCheck(r)
    \/ \E r \in Reqs : RegisterCommit(r)
    \/ \E r \in Reqs : RegisterMirror(r)
    \/ \E c \in Contacts : Contact(c)

Spec == Init /\ [][Next]_vars

----------------------------------------------------------------------------
(* Properties *)

\* the normalized form of an email: trimmed, lower-cased
NormEmail(e) == Lower(Strip(e))

\* indices of the Member rows whose email normalizes as e does
RowsWith(e) == {i \in 1..Len(members) : NormEmail(members[i].email) = NormEmail(e)}

Started == {r \in Reqs : reg[r].pc # "idle"}

\* the started requests submitted with the same normalized email as r
SameEmail(r) == {x \in Started : NormEmail(reg[x].form.email) = NormEmail(reg[r].form.email)}

\* the fields of a Member row that the Mirror Store copies
MemberCopy(m) ==
    [full_name |-> m.full_name, email |-> m.email, phone |-> m.phone,
     package |-> m.package]

\* C1 (state part): a request that ended with DuplicateEmail added no row and
\* made no push.
C1_NoEffect ==
    \A r \in Reqs :
        reg[r].outcome = "DuplicateEmail" =>
            /\ reg[r].pc = "done"
            /\ reg[r].memberId = 0
            /\ reg[r].pushes = 0
            /\ reg[r].mirrorResult = "none"

\* C1 (step part): a submission whose normalized email is the email of a Member
\* committed when the existence query runs ends at once with DuplicateEmail,
\* leaving the Member Store and the Mirror Store as they were.
C1_Step ==
    \A r \in Reqs :
        (reg[r].pc = "idle" /\ reg'[r].pc # "idle" /\ RowsWith(reg'[r].form.email) # {}) =>
            /\ reg'[r].pc = "done"
            /\ reg'[r].outcome = "DuplicateEmail"
            /\ members' = members
            /\ mirror' = mirror

\* C1: every registration submitted with the normalized email of a committed
\* Member ends with DuplicateEmail, adds no Member and pushes nothing.
C1_DuplicateRejected == []C1_NoEffect /\ [][C1_Step]_vars

\* C1 witness: a submission written " A@B " was rejected against the stored a@b
C1_Witness ==
    \E r \in Reqs :
        /\ reg[r].pc = "done"
        /\ reg[r].outcome = "DuplicateEmail"
        /\ reg[r].form.email = <<" ", "A", "@", "B", " ">>
        /\ Len(members) = 1
        /\ members[1].email = <<"a", "@", "b">>

\* C2: no two Members in the Member Store have the same normalized email.
C2_UniqueEmail ==
    \A i, j \in 1..Len(members) :
        i # j => NormEmail(members[i].email) # NormEmail(members[j].email)

\* C2 witness: two requests whose emails differ as written but normalize alike
\* have both passed the existence query, and one of them has committed
C2_Witness ==
    \E r1, r2 \in Reqs :
        /\ r1 # r2
        /\ reg[r1].form.email # reg[r2].form.email
        /\ NormEmail(reg[r1].form.email) = NormEmail(reg[r2].form.email)
        /\ reg[r1].pc = "committed"
        /\ reg[r2].pc = "checked"
        /\ Len(members) = 1

\* C3: among the requests submitted with one normalized email at most one
\* inserts a row and at most one reports RegistrationSucceeded; once all of
\* them have ended exactly one Member with that email is stored, exactly one
\* request succeeded and every other ended with DuplicateEmail or
\* RegistrationFailed.
C3_OneWinner ==
    \A r \in Started :
        LET S == SameEmail(r)
            rows == RowsWith(reg[r].form.email)
            winners == {x \in S : reg[x].outcome = "RegistrationSucceeded"}
        IN  /\ Cardinality(rows) <= 1
            /\ Cardinality({x \in S : reg[x].memberId # 0}) <= 1
            /\ Cardinality(winners) <= 1
            /\ (\A x \in S : reg[x].pc = "done") =>
                 /\ Cardinality(rows) = 1
                 /\ Cardinality(winners) = 1
                 /\ \A x \in S \ winners :
                      /\ reg[x].outcome \in {"DuplicateEmail", "RegistrationFailed"}
                      /\ reg[x].memberId = 0

\* C3 witness: both requests passed the existence query, one committed and
\* succeeded, the other lost at the commit
C3_Witness ==
    \E r1, r2 \in Reqs :
        /\ r1 # r2
        /\ NormEmail(reg[r1].form.email) = NormEmail(reg[r2].form.email)
        /\ reg[r1].pc = "done" /\ reg[r1].outcome = "RegistrationSucceeded"
        /\ reg[r2].pc = "done" /\ reg[r2].raised = "IntegrityError"
        /\ Cardinality(RowsWith(reg[r1].form.email)) = 1

\* C4: a request whose insert is rejected by the unique constraint reports
\* DuplicateEmail, as a request rejected by the existence query does.
C4_RaceLostReportsDuplicate ==
    \A r \in Reqs :
        reg[r].raised = "IntegrityError" => reg[r].outcome = "DuplicateEmail"

\* C5 (state part): a request whose mirror push failed has ended with
\* RegistrationSucceeded after at most one push, and its Member is stored.
C5_FailedPushKeepsMember ==
    \A r \in Reqs :
        reg[r].mirrorResult = "error" =>
            /\ reg[r].pc = "done"
            /\ reg[r].outcome = "RegistrationSucceeded"
            /\ reg[r].pushes <= 1
            /\ reg[r].memberId \in 1..Len(members)
            /\ members[reg[r].memberId].email = reg[r].email

\* C5 (step part): the step after the commit ends the request with
\* RegistrationSucceeded and leaves the Member Store as it was, whatever the
\* push did.
C5_Step ==
    \A r \in Reqs :
        (reg[r].pc = "committed" /\ reg'[r] # reg[r]) =>
            /\ reg'[r].pc = "done"
            /\ reg'[r].outcome = "RegistrationSucceeded"
            /\ reg'[r].pushes <= 1
            /\ members' = members

\* C5: a failure of the mirror push neither undoes the committed Member nor
\* changes the outcome, and the push is not repeated.
C5_MirrorFailureIsolated == []C5_FailedPushKeepsMember /\ [][C5_Step]_vars

\* C5 witness: a push was attempted and failed, the request succeeded
C5_Witness ==
    \E r \in Reqs :
        /\ reg[r].mirrorResult = "error"
        /\ reg[r].pushes = 1
        /\ reg[r].outcome = "RegistrationSucceeded"
        /\ reg[r].memberId \in 1..Len(members)

\* C6: a request that has ended and is the only one submitted with its
\* normalized email reports RegistrationSucceeded, and the store holds exactly
\* one Member with that email: name and phone trimmed, email trimmed and
\* lower-cased, package as submitted.
C6_FreshRegistration ==
    \A r \in Reqs :
        (reg[r].pc = "done" /\ SameEmail(r) = {r}) =>
            /\ reg[r].outcome = "RegistrationSucceeded"
            /\ RowsWith(reg[r].form.email) = {reg[r].memberId}
            /\ members[reg[r].memberId] =
                 [id        |-> reg[r].memberId,
                  full_name |-> Strip(reg[r].form.name),
                  phone     |-> Strip(reg[r].form.phone),
                  email     |-> Lower(Strip(reg[r].form.email)),
                  package   |-> reg[r].form.package]

\* C6 witness: " J D ", " 07 ", " A@B ", "G " is stored as "J D", "07", "a@b", "G "
C6_Witness ==
    \E r \in Reqs :
        /\ reg[r].pc = "done"
        /\ SameEmail(r) = {r}
        /\ reg[r].form = [name |-> <<" ", "J", " ", "D", " ">>,
                          phone |-> <<" ", "0", "7", " ">>,
                          email |-> <<" ", "A", "@", "B", " ">>,
                          package |-> <<"G", " ">>]
        /\ reg[r].outcome = "RegistrationSucceeded"
        /\ \E i \in 1..Len(members) :
             members[i] = [id |-> i, full_name |-> <<"J", " ", "D">>,
                           phone |-> <<"0", "7">>, email |-> <<"a", "@", "b">>,
                           package |-> <<"G", " ">>]

\* C7: with the credentials absent or malformed no application is ever
\* registered, no request attempts a push, the Mirror Store stays empty, and
\* a request that committed ends with RegistrationSucceeded, its push skipped.
C7_InactiveMirror ==
    firebase_credentials \in {"absent", "malformed"} =>
        /\ ~firebase_apps
        /\ mirror = <<>>
        /\ \A r \in Reqs :
             /\ reg[r].pushes = 0
             /\ reg[r].mirrorResult \in {"none", "skipped"}
             /\ (reg[r].pc = "done" /\ reg[r].memberId # 0) =>
                  /\ reg[r].outcome = "RegistrationSucceeded"
                  /\ reg[r].mirrorResult = "skipped"

\* C7 witness: malformed credentials, and a registration that succeeded
C7_Witness ==
    /\ firebase_credentials = "malformed"
    /\ booted
    /\ \E r \in Reqs :
         /\ reg[r].pc = "done"
         /\ reg[r].outcome = "RegistrationSucceeded"
         /\ reg[r].mirrorResult = "skipped"

\* C8 as stated: after process start the session is active exactly when both
\* the credentials and the database URL are configured.
C8_ActiveIffCredentialsAndUrl ==
    booted => (firebase_apps <=> (firebase_credentials = "valid" /\ firebase_db_url = "set"))

\* C8 as amended: after process start the session is active exactly when the
\* credentials are present and well-formed, whether or not a database URL is
\* configured; it is initialized at most once, before any request, and no
\* request changes it.
C8_ActiveIffCredentials ==
    /\ ~booted => (~firebase_apps /\ Started = {} /\ \A c \in Contacts : con[c].pc = "idle")
    /\ booted => (firebase_apps <=> firebase_credentials = "valid")
    /\ initCalls = IF firebase_apps THEN 1 ELSE 0

\* C8 witness: the session is active with no database URL, and requests have run
C8_Witness ==
    /\ booted
    /\ firebase_apps
    /\ firebase_db_url = "absent"
    /\ \E r \in Reqs : reg[r].pc = "done" /\ reg[r].mirrorResult = "error"
    /\ \E c \in Contacts : con[c].pc = "done"

FormComplete(c) == ContactFields \subseteq DOMAIN con[c].form

\* C9 as stated: every contact submission that has ended made exactly one
\* send attempt.
C9_ExactlyOneSend ==
    \A c \in Contacts : con[c].pc = "done" => con[c].sends = 1

\* C9 (state part): a submission carrying all three fields made exactly one
\* send attempt and ended with NotificationSucceeded, or with
\* NotificationFailed and the text of the error; a submission lacking a field
\* made no send attempt and ended with NotificationFailed and the text of the
\* error.
C9_Outcome ==
    \A c \in Contacts :
        con[c].pc = "done" =>
            IF FormComplete(c)
            THEN /\ con[c].sends = 1
                 /\ \/ con[c].outcome = "NotificationSucceeded"
                    \/ con[c].outcome = "NotificationFailed" /\ con[c].text \in MailErrors
            ELSE /\ con[c].sends = 0
                 /\ con[c].outcome = "NotificationFailed"
                 /\ con[c].text = "BadRequestKeyError"

\* C9 (step part): a contact submission changes neither store nor the
\* session, and a submission that has ended makes no further attempt.
C9_Step ==
    con' # con =>
        /\ members' = members
        /\ mirror' = mirror
        /\ firebase_apps' = firebase_apps
        /\ \A c \in Contacts : con[c].pc = "done" => con'[c] = con[c]

\* C9 as amended: a contact submission makes at most one send attempt:
\* exactly one when the message could be composed, none when composing raised;
\* any error ends it with NotificationFailed carrying the error text, with no
\* further attempt, and the stores are unchanged.
C9_AtMostOneSend == []C9_Outcome /\ [][C9_Step]_vars

\* C9 witness: a send was attempted once and failed
C9_Witness ==
    \E c \in Contacts :
        /\ con[c].pc = "done"
        /\ FormComplete(c)
        /\ con[c].sends = 1
        /\ con[c].outcome = "NotificationFailed"
        /\ con[c].text = "SMTPAuthenticationError"

\* C10: every record of the Mirror Store copies a committed Member; a request
\* pushes at most once and only after its commit, and a request that ended
\* with DuplicateEmail or RegistrationFailed pushed nothing.
C10_MirrorCopiesMember ==
    /\ \A k \in 1..Len(mirror) :
         \E i \in 1..Len(members) : MemberCopy(members[i]) = mirror[k]
    /\ Len(mirror) = Cardinality({r \in Reqs : reg[r].mirrorResult = "ok"})
    /\ \A r \in Reqs :
         /\ reg[r].pushes <= 1
         /\ reg[r].pushes = 1 => reg[r].memberId \in 1..Len(members)
         /\ reg[r].outcome \in {"DuplicateEmail", "RegistrationFailed"} =>
              (reg[r].pushes = 0 /\ reg[r].mirrorResult = "none")

\* C10 witness: one request committed and was mirrored, another was rejected
C10_Witness ==
    /\ Len(mirror) = 1
    /\ \E r \in Reqs : reg[r].mirrorResult = "ok" /\ reg[r].form.email # reg[r].email
    /\ \E r \in Reqs : reg[r].outcome = "DuplicateEmail"

====
